---- MODULE Spec2Model ----
(***************************************************************************)
(* Model of check_sat_via_regex_match.py: a CNF formula is compiled into   *)
(* a regular expression with capture groups and back-references, and an    *)
(* assignment is checked by matching a probe string against it.            *)
(*                                                                         *)
(* Strings are sequences of one-character strings.  The pattern is built   *)
(* as text, exactly as construct_pattern concatenates it, then parsed and  *)
(* matched the way Python's re module parses and matches that text.        *)
(***************************************************************************)
EXTENDS Integers, Sequences, FiniteSets, TLC

VARIABLES n_vars, clauses, pc, pattern, regex, gen_i, assignment, out, call, err

vars == <<n_vars, clauses, pc, pattern, regex, gen_i, assignment, out, call, err>>

(***************************************************************************)
(* Bounds of the inputs.                                                   *)
(***************************************************************************)
\* The largest number of variables of the formulas checked exhaustively.
MaxVars == 2
\* The largest size of those formulas: their clauses plus their literals.
MaxSize == 4
\* The number of variables of the formulas with three-digit variable indexes.
WideVars == 100

(***************************************************************************)
(* Text helpers.                                                           *)
(***************************************************************************)
abs(i) == IF i < 0 THEN -i ELSE i

Digit(d) == CASE d = 0 -> "0" [] d = 1 -> "1" [] d = 2 -> "2" [] d = 3 -> "3"
              [] d = 4 -> "4" [] d = 5 -> "5" [] d = 6 -> "6" [] d = 7 -> "7"
              [] d = 8 -> "8" [] d = 9 -> "9"

DigitVal(c) == CASE c = "0" -> 0 [] c = "1" -> 1 [] c = "2" -> 2 [] c = "3" -> 3
                 [] c = "4" -> 4 [] c = "5" -> 5 [] c = "6" -> 6 [] c = "7" -> 7
                 [] c = "8" -> 8 [] c = "9" -> 9

DIGITS == {"0", "1", "2", "3", "4", "5", "6", "7", "8", "9"}

OCTDIGITS == {"0", "1", "2", "3", "4", "5", "6", "7"}

\* The code point of a character of the pattern or probe alphabet.
Ord(c) == CASE c = "F" -> 70 [] c = "T" -> 84 [] c = ";" -> 59 [] c = "," -> 44
            [] c = "^" -> 94 [] c = "(" -> 40 [] c = ")" -> 41 [] c = "|" -> 124
            [] c = "?" -> 63 [] c = "=" -> 61 [] c = ":" -> 58 [] c = "\\" -> 92
            [] c \in DIGITS -> 48 + DigitVal(c)

\* str(i) for i >= 0, as an f-string formats an int.
RECURSIVE IntToStr(_)
IntToStr(i) == IF i < 10 THEN <<Digit(i)>> ELSE IntToStr(i \div 10) \o <<Digit(i % 10)>>

\* s * k
Repeat(s, k) == [i \in 1..(k * Len(s)) |-> s[((i - 1) % Len(s)) + 1]]

\* sep.join(parts)
RECURSIVE Join(_, _)
Join(sep, parts) ==
    IF Len(parts) = 0 THEN <<>>
    ELSE IF Len(parts) = 1 THEN parts[1]
    ELSE parts[1] \o sep \o Join(sep, Tail(parts))

\* ["FT"] * k
Markers(k) == [i \in 1..(IF k < 0 THEN 0 ELSE k) |-> <<"F", "T">>]

RECURSIVE Pow2(_)
Pow2(k) == IF k = 0 THEN 1 ELSE 2 * Pow2(k - 1)

(***************************************************************************)
(* construct_pattern                                                       *)
(***************************************************************************)
NoPattern == <<"<unbound>">>

\* Term with the test of the sign inverted.
TermSignInverted(literal) ==
    IF literal > 0 THEN <<"\\">> \o IntToStr(abs(literal)) \o <<"T">>
    ELSE <<"F", "\\">> \o IntToStr(abs(literal))

\* One alternative of a clause group, for one literal.
Term(literal) ==
    IF literal < 0 THEN <<"\\">> \o IntToStr(abs(literal)) \o <<"T">>
    ELSE <<"F", "\\">> \o IntToStr(literal)

\* ClausePattern with the first term alone in the group instead of the joined terms.
ClausePatternFirstTerm(clause) ==
    <<"(", "?", ":">> \o (IF Len(clause) = 0 THEN <<>> ELSE Term(clause[1])) \o <<")">>

\* The inner loop over the literals of a clause, then the group around the terms.
ClausePattern(clause) ==
    <<"(", "?", ":">> \o Join(<<"|">>, [j \in 1..Len(clause) |-> Term(clause[j])]) \o <<")">>

\* PatternText with one capture group too few.
PatternTextShortPrefix(num_vars, clause_patterns) ==
    <<"^">> \o Repeat(<<"(", "F", "|", "T", ")">>, num_vars - 1) \o <<";">>
        \o <<"(", "?", "=">> \o Join(<<",">>, Markers(Len(clause_patterns))) \o <<")">>
        \o Join(<<",">>, clause_patterns)

\* PatternText with one marker in the lookahead per distinct clause pattern.
PatternTextMergedMarkers(num_vars, clause_patterns) ==
    <<"^">> \o Repeat(<<"(", "F", "|", "T", ")">>, num_vars) \o <<";">>
        \o <<"(", "?", "=">>
        \o Join(<<",">>, Markers(Cardinality({clause_patterns[k] : k \in 1..Len(clause_patterns)})))
        \o <<")">>
        \o Join(<<",">>, clause_patterns)

\* The assignment to `pattern` in the body of the outer loop.
PatternText(num_vars, clause_patterns) ==
    <<"^">> \o Repeat(<<"(", "F", "|", "T", ")">>, num_vars) \o <<";">>
        \o <<"(", "?", "=">> \o Join(<<",">>, Markers(Len(clause_patterns))) \o <<")">>
        \o Join(<<",">>, clause_patterns)

\* The outer loop: after clause k the list holds k clause patterns and `pattern`
\* is reassigned; with no clause the loop body never runs and `pattern` stays
\* unbound.
RECURSIVE PatternLoop(_, _, _, _, _)
PatternLoop(num_vars, cls, k, clause_patterns, pat) ==
    IF k > Len(cls) THEN pat
    ELSE LET cps == Append(clause_patterns, ClausePattern(cls[k]))
         IN PatternLoop(num_vars, cls, k + 1, cps, PatternText(num_vars, cps))

\* construct_pattern returning from inside the loop, after the first clause.
construct_pattern_first_clause(num_vars, cls) ==
    IF Len(cls) = 0 THEN NoPattern
    ELSE PatternText(num_vars, <<ClausePattern(cls[1])>>)

\* The value returned, or NoPattern where `return pattern` raises
\* UnboundLocalError.
construct_pattern(num_vars, cls) == PatternLoop(num_vars, cls, 1, <<>>, NoPattern)

(***************************************************************************)
(* re.compile: Python's parser for the part of the regular-expression      *)
(* syntax that construct_pattern can emit.  A compiled pattern is a list   *)
(* of alternatives, each a list of items:                                  *)
(*   [op |-> "AT_BEGINNING"]                                               *)
(*   [op |-> "LITERAL", code |-> c]                                        *)
(*   [op |-> "GROUPREF", group |-> g]                                      *)
(*   [op |-> "SUBPATTERN", group |-> g, alts |-> <<items, ...>>] (g = 0    *)
(*        for a non-capturing group)                                       *)
(*   [op |-> "ASSERT", alts |-> <<items, ...>>]    (the lookahead)         *)
(***************************************************************************)
CharAt(s, i) == IF i >= 1 /\ i <= Len(s) THEN s[i] ELSE "<end>"

OctVal(ds) == IF Len(ds) = 0 THEN 0
              ELSE IF Len(ds) = 1 THEN DigitVal(ds[1])
              ELSE IF Len(ds) = 2 THEN 8 * DigitVal(ds[1]) + DigitVal(ds[2])
              ELSE 64 * DigitVal(ds[1]) + 8 * DigitVal(ds[2]) + DigitVal(ds[3])

DecVal(ds) == IF Len(ds) = 1 THEN DigitVal(ds[1])
              ELSE 10 * DigitVal(ds[1]) + DigitVal(ds[2])

ParseFail(msg, i) == [err |-> msg, pos |-> i, groups |-> 0, val |-> <<>>]

\* A backslash at s[i]: "\0" starts an octal escape of up to three digits; three
\* octal digits are an octal escape; otherwise the first one or two digits are a
\* decimal group reference, which must name a group that is already closed.
ParseEscape(s, i, groups, open) ==
    LET c1 == CharAt(s, i + 1)
        c2 == CharAt(s, i + 2)
        c3 == CharAt(s, i + 3)
    IN IF c1 = "0" THEN
            LET n == IF c2 \in OCTDIGITS THEN (IF c3 \in OCTDIGITS THEN 2 ELSE 1) ELSE 0
            IN [err |-> "", pos |-> i + 2 + n, groups |-> groups,
                val |-> [op |-> "LITERAL", code |-> OctVal(SubSeq(s, i + 1, i + 1 + n))]]
       ELSE IF c1 \in DIGITS THEN
            IF c2 \in DIGITS /\ c1 \in OCTDIGITS /\ c2 \in OCTDIGITS /\ c3 \in OCTDIGITS THEN
                LET c == OctVal(<<c1, c2, c3>>)
                IN IF c > 255 THEN ParseFail("octal escape value outside of range 0-0o377", i)
                   ELSE [err |-> "", pos |-> i + 4, groups |-> groups,
                         val |-> [op |-> "LITERAL", code |-> c]]
            ELSE
                LET ds == IF c2 \in DIGITS THEN <<c1, c2>> ELSE <<c1>>
                    group == DecVal(ds)
                IN IF group < groups THEN
                        IF group \in open THEN ParseFail("cannot refer to an open group", i)
                        ELSE [err |-> "", pos |-> i + 1 + Len(ds), groups |-> groups,
                              val |-> [op |-> "GROUPREF", group |-> group]]
                   ELSE ParseFail("invalid group reference", i)
       ELSE ParseFail("bad escape", i)

RECURSIVE ParseSub(_, _, _, _, _)
RECURSIVE ParseItems(_, _, _, _)
RECURSIVE ParseUpTo(_, _, _, _)

\* The parse of one alternative has ended: an error, or "|", ")" or the end of
\* the text is next.
ParseDone(s, st) == st.err # "" \/ CharAt(s, st.pos) \in {"<end>", "|", ")"}

\* One turn of the loop of _parse: the item at st.pos is appended to st.val.
\* `st.groups` is state.groups (one more than the number of groups opened so
\* far), `open` the groups opened and not yet closed.
ParseItem(s, st, open) ==
    LET i == st.pos
        c == CharAt(s, i)
    IN IF c = "(" THEN
            LET ext == CharAt(s, i + 1) = "?"
                kind == IF ~ext THEN "capture"
                        ELSE IF CharAt(s, i + 2) = ":" THEN "group"
                        ELSE IF CharAt(s, i + 2) = "=" THEN "assert"
                        ELSE "unknown"
                group == IF kind = "capture" THEN st.groups ELSE 0
                sub == ParseSub(s, IF ext THEN i + 3 ELSE i + 1,
                                IF kind = "capture" THEN st.groups + 1 ELSE st.groups,
                                IF kind = "capture" THEN open \cup {group} ELSE open,
                                <<>>)
                node == IF kind = "assert" THEN [op |-> "ASSERT", alts |-> sub.val]
                        ELSE [op |-> "SUBPATTERN", group |-> group, alts |-> sub.val]
            IN IF kind = "unknown" THEN ParseFail("unknown extension", i)
               ELSE IF sub.err # "" THEN sub
               ELSE IF CharAt(s, sub.pos) # ")" THEN
                    ParseFail("missing ), unterminated subpattern", i)
               ELSE [err |-> "", pos |-> sub.pos + 1, groups |-> sub.groups,
                     val |-> Append(st.val, node)]
       ELSE IF c = "\\" THEN
            LET e == ParseEscape(s, i, st.groups, open)
            IN IF e.err # "" THEN e
               ELSE [err |-> "", pos |-> e.pos, groups |-> st.groups,
                     val |-> Append(st.val, e.val)]
       ELSE IF c = "^" THEN
            [err |-> "", pos |-> i + 1, groups |-> st.groups,
             val |-> Append(st.val, [op |-> "AT_BEGINNING"])]
       ELSE [err |-> "", pos |-> i + 1, groups |-> st.groups,
             val |-> Append(st.val, [op |-> "LITERAL", code |-> Ord(c)])]

\* Up to k turns of the loop of _parse, stopping where the alternative ends
\* (the turns are split in halves to keep the evaluation shallow).
ParseUpTo(s, st, open, k) ==
    IF ParseDone(s, st) THEN st
    ELSE IF k <= 1 THEN ParseItem(s, st, open)
    ELSE ParseUpTo(s, ParseUpTo(s, st, open, k \div 2), open, k - (k \div 2))

\* The loop of _parse run to its end: k turns, then 2k more, and so on.
ParseItems(s, st, open, k) ==
    IF ParseDone(s, st) THEN st
    ELSE ParseItems(s, ParseUpTo(s, st, open, k), open, 2 * k)

\* _parse: the items of one alternative, from s[i] up to "|", ")" or the end of
\* the text.
ParseSeq(s, i, groups, open) ==
    ParseItems(s, [err |-> "", pos |-> i, groups |-> groups, val |-> <<>>], open, 1)

\* _parse_sub: alternatives separated by "|".
ParseSub(s, i, groups, open, alts) ==
    LET a == ParseSeq(s, i, groups, open)
    IN IF a.err # "" THEN a
       ELSE IF CharAt(s, a.pos) = "|" THEN
            ParseSub(s, a.pos + 1, a.groups, open, Append(alts, a.val))
       ELSE [err |-> "", pos |-> a.pos, groups |-> a.groups, val |-> Append(alts, a.val)]

NoRegex == [err |-> "<not compiled>", groups |-> 0, alts |-> <<>>]

\* re.compile(pattern): the compiled pattern, or the re.error it raises.
re_compile(text) ==
    LET p == ParseSub(text, 1, 1, {}, <<>>)
    IN IF p.err # "" THEN [err |-> p.err, groups |-> 0, alts |-> <<>>]
       ELSE IF p.pos <= Len(text) THEN [err |-> "unbalanced parenthesis", groups |-> 0, alts |-> <<>>]
       ELSE [err |-> "", groups |-> p.groups - 1, alts |-> p.val]

(***************************************************************************)
(* Pattern.match: a backtracking match from the start of the string.  A    *)
(* match state is the position reached and the text captured by each group *)
(* matched so far; each operator gives the set of match states the engine  *)
(* can reach by backtracking, and the match succeeds when the whole        *)
(* pattern reaches one (the end of the string need not be reached).        *)
(***************************************************************************)
RECURSIVE MatchSeq(_, _, _, _, _)
RECURSIVE MatchItem(_, _, _, _)

MatchAlts(alts, str, pos, caps) ==
    UNION {MatchSeq(alts[a], 1, Len(alts[a]), str, {[pos |-> pos, caps |-> caps]}) :
               a \in 1..Len(alts)}

MatchItem(item, str, pos, caps) ==
    IF item.op = "AT_BEGINNING" THEN
        IF pos = 1 THEN {[pos |-> pos, caps |-> caps]} ELSE {}
    ELSE IF item.op = "LITERAL" THEN
        IF pos <= Len(str) /\ Ord(str[pos]) = item.code
        THEN {[pos |-> pos + 1, caps |-> caps]} ELSE {}
    ELSE IF item.op = "GROUPREF" THEN
        \* a reference to a group that has not matched fails
        IF item.group \in DOMAIN caps
           /\ pos + Len(caps[item.group]) - 1 <= Len(str)
           /\ SubSeq(str, pos, pos + Len(caps[item.group]) - 1) = caps[item.group]
        THEN {[pos |-> pos + Len(caps[item.group]), caps |-> caps]} ELSE {}
    ELSE IF item.op = "ASSERT" THEN
        \* zero-width: the position is kept
        {[pos |-> pos, caps |-> m.caps] : m \in MatchAlts(item.alts, str, pos, caps)}
    ELSE \* SUBPATTERN
        IF item.group = 0 THEN MatchAlts(item.alts, str, pos, caps)
        ELSE {[pos |-> m.pos,
               caps |-> [g \in DOMAIN m.caps \cup {item.group} |->
                            IF g = item.group THEN SubSeq(str, pos, m.pos - 1)
                            ELSE m.caps[g]]] :
                 m \in MatchAlts(item.alts, str, pos, caps)}

\* The match states reached from one of `from` by matching items[lo..hi] in
\* order (the range is split in halves to keep the evaluation shallow).
MatchSeq(items, lo, hi, str, from) ==
    IF from = {} \/ lo > hi THEN from
    ELSE IF lo = hi THEN UNION {MatchItem(items[lo], str, m.pos, m.caps) : m \in from}
    ELSE LET mid == (lo + hi) \div 2
         IN MatchSeq(items, mid + 1, hi, str, MatchSeq(items, lo, mid, str, from))

\* regex.match(string) is not None
re_match(rx, str) == MatchAlts(rx.alts, str, 1, <<>>) # {}

(***************************************************************************)
(* check_sat                                                               *)
(***************************************************************************)
test_string(asg, num_clauses) == asg \o <<";">> \o Join(<<",">>, Markers(num_clauses))

check_sat(asg, rx, num_clauses) == re_match(rx, test_string(asg, num_clauses))

(***************************************************************************)
(* int_to_binary_string and enumerate_assignments                          *)
(***************************************************************************)
\* format(i, "b"): the binary digits of i, "0" for 0
RECURSIVE Binary(_)
Binary(i) == IF i < 2 THEN <<Digit(i)>> ELSE Binary(i \div 2) \o <<Digit(i % 2)>>

\* int_to_binary_string without the zero padding.
int_to_binary_string_unpadded(i, num_bits) == Binary(i)

\* format(i, f"0{num_bits}b"): zero-padded on the left to at least num_bits
int_to_binary_string(i, num_bits) ==
    LET b == Binary(i) IN Repeat(<<"0">>, num_bits - Len(b)) \o b

\* s.replace(old, new) for one-character old and new
replace(s, old, new) == [k \in 1..Len(s) |-> IF s[k] = old THEN new ELSE s[k]]

\* The value yielded by the generator at loop index i
Yield(i, num_vars) == replace(replace(int_to_binary_string(i, num_vars), "0", "F"), "1", "T")

(***************************************************************************)
(* Inputs.                                                                 *)
(***************************************************************************)
\* Sequences over S of length lo..hi
SeqsOf(S, lo, hi) == UNION {[1..k -> S] : k \in lo..hi}

\* The literals a caller may pass with num_vars variables: the proper ones, and
\* the improper ones next to them (zero, an index one past num_vars).
Literals(num_vars) == (-(num_vars + 1))..(num_vars + 1)

\* The clause lists over the literals `lits` whose size, the number of clauses
\* plus the number of literals, is at most `size`: the empty list, lists with an
\* empty clause, repeated and tautological clauses included.
RECURSIVE FormulasOver(_, _)
FormulasOver(lits, size) ==
    {<<>>} \cup
    UNION {{<<c>> \o rest : rest \in FormulasOver(lits, size - 1 - Len(c))} :
              c \in SeqsOf(lits, 0, size - 1)}

Formulas(num_vars) == FormulasOver(Literals(num_vars), MaxSize)

\* The Formula invariant of the data model: a clause list that is not empty, of
\* clauses that are not empty, of nonzero literals with an index in 1..num_vars.
WellFormed(num_vars, cls) ==
    /\ num_vars >= 1
    /\ Len(cls) >= 1
    /\ \A c \in 1..Len(cls) :
          /\ Len(cls[c]) >= 1
          /\ \A j \in 1..Len(cls[c]) :
                cls[c][j] # 0 /\ abs(cls[c][j]) <= num_vars

\* The formula of the example at the end of the file.
ExampleVars == 3

ExampleClauses == << <<1, 2, -3>>, <<1, -2, 3>>, <<-1, -2, 3>>, <<-1, -2, -3>> >>

\* A formula with three-digit variable indexes: the first and the last variable
\* occur, in either polarity.
WideLiterals == {1, -1, WideVars, -WideVars}

WideFormulas ==
    {f \in FormulasOver(WideLiterals, MaxSize - 1) : WellFormed(WideVars, f)}

\* The assignment strings a caller may pass to check_sat for a formula of
\* num_vars variables: every string over {F, T} of length 0..num_vars+1; with
\* three-digit indexes, the strings of length num_vars-1..num_vars+1 that are
\* constant between their first and last character.
Assignments(num_vars) ==
    IF num_vars < WideVars THEN SeqsOf({"F", "T"}, 0, num_vars + 1)
    ELSE {[k \in 1..len |-> IF k = 1 THEN a ELSE IF k = len THEN c ELSE b] :
             len \in (num_vars - 1)..(num_vars + 1), a \in {"F", "T"},
             b \in {"F", "T"}, c \in {"F", "T"}}

NoCall == [assignment |-> <<>>, num_clauses |-> -1, result |-> FALSE]

(***************************************************************************)
(* The program: the statements of the example at the end of the file, run  *)
(* on the formula chosen initially, and a call of check_sat by a caller of *)
(* the module with arguments of its own.                                   *)
(***************************************************************************)
InitWith(nv, cls) ==
    /\ n_vars = nv
    /\ clauses = cls
    /\ pc = "start"
    /\ pattern = NoPattern
    /\ regex = NoRegex
    /\ gen_i = 0
    /\ assignment = <<>>
    /\ out = <<>>
    /\ call = NoCall
    /\ err = ""

Init ==
    \/ \E nv \in 1..MaxVars : \E cls \in Formulas(nv) : InitWith(nv, cls)
    \/ InitWith(ExampleVars, ExampleClauses)

InitWide == \E cls \in WideFormulas : InitWith(WideVars, cls)

\* pattern = construct_pattern(n_vars, clauses); print(pattern)
ConstructPattern ==
    /\ pc = "start"
    /\ LET p == construct_pattern(n_vars, clauses)
       IN IF p = NoPattern
          THEN /\ pc' = "raised"
               /\ err' = "UnboundLocalError"
               /\ UNCHANGED <<pattern, out>>
          ELSE /\ pc' = "built"
               /\ pattern' = p
               /\ out' = Append(out, <<p, "">>)
               /\ err' = err
    /\ UNCHANGED <<n_vars, clauses, regex, gen_i, assignment, call>>

\* regex = re.compile(pattern)
Compile ==
    /\ pc = "built"
    /\ LET r == re_compile(pattern)
       IN IF r.err # ""
          THEN /\ pc' = "raised"
               /\ err' = "re.error"
               /\ regex' = regex
          ELSE /\ pc' = "loop"
               /\ regex' = r
               /\ err' = err
    /\ UNCHANGED <<n_vars, clauses, pattern, gen_i, assignment, out, call>>

\* for assignment in enumerate_assignments(n_vars): the generator runs to its
\* next yield, or its range is exhausted and the loop ends
NextAssignment ==
    /\ pc = "loop"
    /\ IF gen_i < Pow2(n_vars)
       THEN /\ assignment' = Yield(gen_i, n_vars)
            /\ gen_i' = gen_i + 1
            /\ pc' = "body"
       ELSE /\ pc' = "done"
            /\ UNCHANGED <<assignment, gen_i>>
    /\ UNCHANGED <<n_vars, clauses, pattern, regex, out, call, err>>

\* the body of the loop: check_sat(assignment, regex, len(clauses)), then print
CheckAndPrint ==
    /\ pc = "body"
    /\ out' = Append(out, <<assignment,
                            IF check_sat(assignment, regex, Len(clauses))
                            THEN "SAT" ELSE "UNSAT">>)
    /\ pc' = "loop"
    /\ UNCHANGED <<n_vars, clauses, pattern, regex, gen_i, assignment, call, err>>

\* check_sat(a, regex, k) called on the compiled pattern by a caller that
\* chooses the assignment string and the clause count
CheckSatCall ==
    /\ pc = "loop"
    /\ gen_i = 0
    /\ \E a \in Assignments(n_vars) : \E k \in 0..(Len(clauses) + 1) :
          call' = [assignment |-> a, num_clauses |-> k, result |-> check_sat(a, regex, k)]
    /\ pc' = "called"
    /\ UNCHANGED <<n_vars, clauses, pattern, regex, gen_i, assignment, out, err>>

Next == ConstructPattern \/ Compile \/ NextAssignment \/ CheckAndPrint \/ CheckSatCall

Spec == Init /\ [][Next]_vars

NextWide == ConstructPattern \/ Compile \/ CheckSatCall

SpecWide == InitWide /\ [][NextWide]_vars

(***************************************************************************)
(* The properties checked.                                                 *)
(***************************************************************************)
\* The truth of a literal under an assignment string, and brute-force CNF
\* evaluation: every clause holds a literal that is true.
LitTrue(literal, asg) ==
    IF literal > 0 THEN asg[literal] = "T" ELSE asg[-literal] = "F"

Satisfies(cls, asg) ==
    \A c \in 1..Len(cls) : \E j \in 1..Len(cls[c]) : LitTrue(cls[c][j], asg)

OverFT(asg) == \A k \in 1..Len(asg) : asg[k] \in {"F", "T"}

\* check_sat has been called by a caller with arguments of its own.
Called == pc = "called"

\* The lines printed by the loop (the first line printed is the pattern).
Lines == IF Len(out) = 0 THEN <<>> ELSE Tail(out)

\* C1: for a well-formed formula and an assignment of num_vars characters,
\* check_sat with the formula's clause count returns true exactly when every
\* clause contains a literal that is true under the assignment.
C1_MatchIffSatisfied ==
    (Called /\ WellFormed(n_vars, clauses)
        /\ Len(call.assignment) = n_vars /\ call.num_clauses = Len(clauses))
    => (call.result <=> Satisfies(clauses, call.assignment))

\* C2: a probe whose number of FT markers differs from the clause count of the
\* pattern never matches, whatever the assignment.
C2_WrongMarkerCountNeverMatches ==
    (Called /\ WellFormed(n_vars, clauses) /\ call.num_clauses # Len(clauses))
    => ~call.result

\* C3: for a malformed formula construct_pattern fails: no pattern is returned,
\* nothing is compiled or matched and check_sat gives no answer.
C3_MalformedRejectedAtBuild ==
    ~WellFormed(n_vars, clauses)
    => (pattern = NoPattern /\ regex = NoRegex /\ pc \in {"start", "raised"}
           /\ Len(out) = 0 /\ call = NoCall)

\* C4: on the pattern of a well-formed formula of n variables, check_sat never
\* returns true for a string over {F, T} whose length is not n.
C4_LengthMismatchNeverTrue ==
    (Called /\ WellFormed(n_vars, clauses) /\ OverFT(call.assignment)
        /\ Len(call.assignment) # n_vars)
    => ~call.result

\* C4 witness: an assignment one character too long, whose first n characters
\* satisfy the formula, has been rejected.
C4_Witness ==
    /\ Called /\ WellFormed(n_vars, clauses)
    /\ Len(call.assignment) = n_vars + 1
    /\ call.num_clauses = Len(clauses)
    /\ Satisfies(clauses, SubSeq(call.assignment, 1, n_vars))
    /\ ~call.result

\* s is the n-character binary numeral of v, most significant bit first, with F
\* for 0 and T for 1.
IsBinaryOf(s, v, n) ==
    /\ Len(s) = n
    /\ \A k \in 1..n : s[k] = (IF (v \div Pow2(n - k)) % 2 = 1 THEN "T" ELSE "F")

\* C5: the k-th string yielded by enumerate_assignments(n) (k from 0) is the
\* n-bit binary numeral of k with F for 0 and T for 1; the generator yields
\* 2^n strings, every combination exactly once, and is then exhausted.
C5_EnumerationOrder ==
    /\ gen_i <= Pow2(n_vars)
    /\ \A k \in 1..Len(Lines) : IsBinaryOf(Lines[k][1], k - 1, n_vars)
    /\ pc = "body" => (IsBinaryOf(assignment, gen_i - 1, n_vars) /\ Len(Lines) = gen_i - 1)
    /\ pc = "done" =>
          /\ Len(Lines) = Pow2(n_vars)
          /\ \A a \in [1..n_vars -> {"F", "T"}] :
                Cardinality({k \in 1..Len(Lines) : Lines[k][1] = a}) = 1
          /\ \A j, k \in 1..Len(Lines) : j < k => Lines[j][1] # Lines[k][1]

\* C5 witness: the generator is exhausted for the largest number of variables.
C5_Witness == pc = "done" /\ n_vars >= MaxVars /\ Len(Lines) = Pow2(n_vars)

IsExample == n_vars = ExampleVars /\ clauses = ExampleClauses

\* C6: the example run classifies as SAT exactly the assignments that
\* brute-force evaluation satisfies; TTT is UNSAT; each of the 8 assignments is
\* classified exactly once.
C6_ExampleRun ==
    IsExample =>
       /\ \A k \in 1..Len(Lines) :
             /\ Lines[k][2] \in {"SAT", "UNSAT"}
             /\ Lines[k][2] = "SAT" <=> Satisfies(ExampleClauses, Lines[k][1])
             /\ Lines[k][1] = <<"T", "T", "T">> => Lines[k][2] = "UNSAT"
       /\ pc = "done" =>
             /\ Len(Lines) = 8
             /\ \A a \in [1..ExampleVars -> {"F", "T"}] :
                   Cardinality({k \in 1..Len(Lines) : Lines[k][1] = a}) = 1

\* C6 witness: the example run has ended, with TTT printed as UNSAT and FFF as SAT.
C6_Witness ==
    /\ IsExample /\ pc = "done"
    /\ Lines[8] = << <<"T", "T", "T">>, "UNSAT" >>
    /\ Lines[1] = << <<"F", "F", "F">>, "SAT" >>

\* The permutations of 1..n that move something, and the clause list with
\* clause c reordered by f.
Perms(n) ==
    {f \in [1..n -> 1..n] :
        (\A i, j \in 1..n : f[i] = f[j] => i = j) /\ (\E i \in 1..n : f[i] # i)}

Reordered(cls, c, f) ==
    [i \in 1..Len(cls) |-> IF i = c THEN [j \in 1..Len(cls[c]) |-> cls[c][f[j]]] ELSE cls[i]]

\* C8: for a well-formed formula and an assignment of matching length, permuting
\* the literals of any clause leaves the result of check_sat (called with the
\* formula's clause count) unchanged.
C8_AlternativeOrderIrrelevant ==
    (Called /\ WellFormed(n_vars, clauses)
        /\ Len(call.assignment) = n_vars /\ call.num_clauses = Len(clauses))
    => \A c \in 1..Len(clauses) : \A f \in Perms(Len(clauses[c])) :
          LET rx == re_compile(construct_pattern(n_vars, Reordered(clauses, c, f)))
          IN rx.err = ""
             /\ check_sat(call.assignment, rx, call.num_clauses) = call.result

\* C8 witness: a match in which the first literal of a clause is false and its
\* second literal is true.
C8_Witness ==
    /\ Called /\ WellFormed(n_vars, clauses) /\ Len(call.assignment) = n_vars
    /\ call.num_clauses = Len(clauses)
    /\ call.result
    /\ \E c \in 1..Len(clauses) :
          /\ Len(clauses[c]) >= 2
          /\ ~LitTrue(clauses[c][1], call.assignment)
          /\ LitTrue(clauses[c][2], call.assignment)

\* The text of a clause group as the specification words it: one alternative per
\* literal in literal order, F then \v for a positive literal v, \v then T for
\* a negative one.
GroupText(clause) ==
    <<"(", "?", ":">>
      \o Join(<<"|">>, [j \in 1..Len(clause) |->
                          IF clause[j] > 0 THEN <<"F", "\\">> \o IntToStr(clause[j])
                          ELSE <<"\\">> \o IntToStr(-clause[j]) \o <<"T">>])
      \o <<")">>

C10_UndercountRejected ==
    (Called /\ call.num_clauses < Len(clauses)) => ~call.result

\* C10 witness: an assignment that satisfies the formula has been rejected
\* with a clause count that is too small but not zero.
C10_Witness ==
    /\ Called /\ WellFormed(n_vars, clauses)
    /\ Len(call.assignment) = n_vars /\ Satisfies(clauses, call.assignment)
    /\ call.num_clauses >= 1 /\ call.num_clauses < Len(clauses)
    /\ ~call.result

====
